---- MODULE Spec2Model ----
(***************************************************************************)
(* NeuroKnights SSVEP engine.                                              *)
(*                                                                         *)
(* Part 1 models SSVEPAnalyzer (src/ssvep/signal_processing/               *)
(* ssvep_analyzer.py): run() as a sequential process whose position is pc, *)
(* the SIGINT handler stop() that may run between any two of its steps,    *)
(* and the BrainFlow signal source it drives.                              *)
(*                                                                         *)
(* Part 2 models FoCAA_KNN.fbcca_analysis (analysis.py) as an operator     *)
(* applied to bounded inputs.                                              *)
(***************************************************************************)
EXTENDS Integers, Sequences, FiniteSets, TLC

VARIABLES
    frequencies,      \* self.frequencies: the target frequency list
    channels,         \* self.channels: row indices of the EEG channels
    cca_buffer_size,  \* self.cca_buffer_size: samples per analysis window
    boardRows,        \* rows of every array the board returns
    _run,             \* self._run
    pc,               \* position of run()
    chIdx,            \* position of the "for channel in self.channels" loops
    session,          \* the board session: closed, prepared, streaming, stopped, released
    boardCalls,       \* session and configuration calls made on board_shim, in order
    count,            \* samples in the source's ring buffer
    data,             \* the local "data" of the current cycle, and the pull it came from
    reference_signals,\* focca_knn.reference_signals: number of reference sets, -1 before it is built
    eeg_csv_file,     \* "unopened", "open" or "closed"
    sk_cca_csv,       \* "unopened", "open" or "closed"
    eeg_rows,         \* data rows written to the EEG file
    cca_rows,         \* result rows written to the CCA file
    csv_rows,         \* the rows of both files, in the order written
    emitted,          \* predicted indices emitted (lines 193-203)
    exc,              \* the exception that ended run(), "none" otherwise
    polls,            \* get_board_data_count() calls made by the buffer wait (line 104)
    pulls,            \* get_current_board_data() calls
    cycles,           \* loop bodies entered
    stopPc,           \* where run() was when stop() first ran, "none" before
    fb_in,            \* arguments of a call of fbcca_analysis
    fb_out,           \* its result
    fb_prev,          \* the result of the call before it
    fn_call,          \* a call of one method of FoCAA_KNN: its name and arguments
    fn_ret,           \* what the call returned or raised
    board_shim,       \* async analyzer: whether the attribute self.board_shim exists
    board_shim1,      \* async analyzer: the sampling rate of self.board_shim1, 0 for None
    sampling_rate,    \* async analyzer: self.sampling_rate, 0 for None
    focaa_knn,        \* async analyzer: self.focaa_knn, by what it was built from
    focca_knn,        \* async analyzer: the local focca_knn of run()
    boards_initialized, \* async analyzer: self.boards_initialized
    reinit,           \* async analyzer: position of the reinitialize_boards task
    reconfigs,        \* async analyzer: settings changes so far
    correlated,       \* async analyzer: the FoCAA_KNN the last cycle classified with
    controls,         \* async analyzer: self.controls, <<>> for None or an empty list
    command           \* async analyzer: what a cycle looked up for its predicted label

vars == <<frequencies, channels, cca_buffer_size, boardRows, _run, pc, chIdx, session,
          boardCalls, count, data, reference_signals, eeg_csv_file, sk_cca_csv,
          eeg_rows, cca_rows, csv_rows, emitted, exc, polls, pulls, cycles, stopPc, fb_in, fb_out,
          fb_prev, fn_call, fn_ret, board_shim, board_shim1, sampling_rate, focaa_knn,
          focca_knn, boards_initialized, reinit, reconfigs, correlated, controls, command>>

configVars == <<frequencies, channels, cca_buffer_size, boardRows>>
fileVars == <<eeg_csv_file, sk_cca_csv, eeg_rows, cca_rows, csv_rows>>
counterVars == <<polls, pulls, cycles, emitted>>
fbVars == <<fb_in, fb_out, fb_prev, fn_call, fn_ret>>
asyncVars == <<board_shim, board_shim1, sampling_rate, focaa_knn, focca_knn,
               boards_initialized, reinit, reconfigs, correlated, controls, command>>

(***************************************************************************)
(* Bounds of the model.                                                    *)
(***************************************************************************)
MaxFreq == 2
MaxChannels == 2
MaxWindow == 2
MaxCount == 3
MaxPolls == 2

\* data[11] is the timestamp row (ssvep_analyzer.py line 134).
TimestampRow == 11

Min(x, y) == IF x <= y THEN x ELSE y

\* Frequency lists of length 0..MaxFreq (the constructor takes any list).
FrequencyLists == {[i \in 1..n |-> 6 + 2 * i] : n \in 0..MaxFreq}

\* Channel lists: 1..n, and one that names a row the board does not have.
ChannelLists ==
    {[i \in 1..n |-> i] : n \in 1..MaxChannels} \cup {<<1, TimestampRow + 1>>}

\* A board with too few rows for data[11], and one with enough.
BoardRowCounts == {TimestampRow, TimestampRow + 1}

NoData == [chans |-> 0, samples |-> 0, layout |-> "none", pull |-> 0]
NoCall == [nbands |-> 0, rho |-> <<>>, a |-> <<>>, b |-> <<>>]
NoResult == [c |-> <<>>, label |-> -1, labels |-> <<>>]
NoFn == [fn |-> "none"]
NoRows == [eeg |-> <<>>, cca |-> <<>>]
NoKnn == [built |-> FALSE]
NoCommand == [sent |-> FALSE]

\* The attributes of the async analyzer, which only Part 5 uses.
AsyncIdle ==
    /\ board_shim = "unset"
    /\ board_shim1 = 0
    /\ sampling_rate = 0
    /\ focaa_knn = NoKnn
    /\ focca_knn = NoKnn
    /\ boards_initialized = FALSE
    /\ reinit = "idle"
    /\ reconfigs = 0
    /\ correlated = NoKnn
    /\ command = NoCommand

(***************************************************************************)
(* SSVEPAnalyzer.__init__ followed by the call of run().                   *)
(***************************************************************************)
LoopIdle ==
    /\ _run = TRUE
    /\ pc = "prepare_session"
    /\ chIdx = 1
    /\ session = "closed"
    /\ boardCalls = <<>>
    /\ count = 0
    /\ data = NoData
    /\ reference_signals = -1
    /\ eeg_csv_file = "unopened"
    /\ sk_cca_csv = "unopened"
    /\ eeg_rows = 0
    /\ cca_rows = 0
    /\ csv_rows = NoRows
    /\ emitted = 0
    /\ exc = "none"
    /\ polls = 0
    /\ pulls = 0
    /\ cycles = 0
    /\ stopPc = "none"

Init ==
    /\ frequencies \in FrequencyLists
    /\ channels \in ChannelLists
    /\ cca_buffer_size \in 0..MaxWindow
    /\ boardRows \in BoardRowCounts
    /\ LoopIdle
    /\ fb_in = NoCall
    /\ fb_out = NoResult
    /\ fb_prev = NoResult
    /\ fn_call = NoFn
    /\ fn_ret = NoFn
    /\ AsyncIdle
    /\ controls = <<>>

\* A handler that swallows the exception and goes on with the next iteration.
RaiseAndContinue(e) ==
    /\ pc' = "loop_test"
    /\ exc' = e

\* An exception nothing in run() catches: run() ends there.
Raise(e) ==
    /\ pc' = "raised"
    /\ exc' = e

(***************************************************************************)
(* initialize()                                                            *)
(***************************************************************************)
PrepareSession ==
    /\ pc = "prepare_session"
    /\ session' = "prepared"
    /\ boardCalls' = Append(boardCalls, "prepare_session")
    /\ pc' = "start_stream"
    /\ UNCHANGED <<configVars, _run, chIdx, count, data, reference_signals, fileVars,
                   exc, counterVars, stopPc, fbVars,
                   asyncVars>>

StartStream ==
    /\ pc = "start_stream"
    /\ session' = "streaming"
    /\ boardCalls' = Append(boardCalls, "start_stream")
    /\ chIdx' = 1
    /\ pc' = "enable_channels"
    /\ UNCHANGED <<configVars, _run, count, data, reference_signals, fileVars,
                   exc, counterVars, stopPc, fbVars,
                   asyncVars>>

EnableChannel ==
    /\ pc = "enable_channels"
    /\ \/ /\ chIdx <= Len(channels)
          /\ boardCalls' = Append(boardCalls, "chon")
          /\ chIdx' = chIdx + 1
          /\ pc' = pc
       \/ /\ chIdx > Len(channels)
          /\ pc' = "initialize_writers"
          /\ UNCHANGED <<boardCalls, chIdx>>
    /\ UNCHANGED <<configVars, _run, session, count, data, reference_signals, fileVars,
                   exc, counterVars, stopPc, fbVars,
                   asyncVars>>

(***************************************************************************)
(* run(), before the loop                                                  *)
(***************************************************************************)
\* A row is carried by its layout: the number of leading per-channel or
\* per-frequency fields and the fields that follow them.
\* header=self.channel_names + ["Timestamp"] (line 87), one name per channel
EegHeader == [lead |-> Len(channels), tail |-> <<"Timestamp">>]

\* header=self.frequencies + ["Stimuli", "Freq", "Time"] (line 91)
CcaHeader == [lead |-> Len(frequencies), tail |-> <<"Stimuli", "Freq", "Time">>]

\* recording.initialize_writer (recording.py lines 41-48): the file is opened with
\* mode "w" and the header row is written.
initialize_writer(header) == <<[kind |-> "header"] @@ header>>

InitializeWriters ==
    /\ pc = "initialize_writers"
    /\ eeg_csv_file' = "open"
    /\ sk_cca_csv' = "open"
    /\ csv_rows' = [eeg |-> initialize_writer(EegHeader),
                    cca |-> initialize_writer(CcaHeader)]
    /\ pc' = "create_analysis"
    /\ UNCHANGED <<configVars, _run, chIdx, session, boardCalls, count, data,
                   reference_signals, eeg_rows, cca_rows, exc, counterVars, stopPc, fbVars,
                   asyncVars>>

\* FoCAA_KNN(...): one reference set per frequency, no validation of the arguments.
CreateAnalysis ==
    /\ pc = "create_analysis"
    /\ reference_signals' = Len(frequencies)
    /\ pc' = "wait_for_buffer"
    /\ UNCHANGED <<configVars, _run, chIdx, session, boardCalls, count, data, fileVars,
                   exc, counterVars, stopPc, fbVars,
                   asyncVars>>

\* A wait that ends one sample early.
BufferReadyOffByOne(n) == ~(n + 1 < cca_buffer_size)

\* The buffer is large enough for the loop to start.
BufferReady(n) == ~(n < cca_buffer_size)

\* while get_board_data_count() < cca_buffer_size: sleep(0.5)
WaitForBuffer ==
    /\ pc = "wait_for_buffer"
    /\ \/ /\ ~BufferReady(count)
          /\ polls < MaxPolls
          /\ polls' = polls + 1
          /\ pc' = pc
       \/ /\ BufferReady(count)
          /\ pc' = "loop_test"
          /\ polls' = polls + 1
    /\ UNCHANGED <<configVars, _run, chIdx, session, boardCalls, count, data,
                   reference_signals, fileVars, exc, pulls, cycles, emitted, stopPc, fbVars,
                   asyncVars>>

(***************************************************************************)
(* run(), the main loop                                                    *)
(***************************************************************************)
\* A loop that never looks at the flag.
LoopContinuesAlways == TRUE

\* The loop test: while self._run
LoopContinues == _run

\* A run() that calls uninitialize() without closing its files first.
AfterLoopUninitialize == "disable_channels"

\* What follows the loop: the two uninitialize_writer calls (lines 218-219), then
\* uninitialize() (line 221).
AfterLoop == "close_writers"

LoopTest ==
    /\ pc = "loop_test"
    /\ \/ /\ LoopContinues
          /\ cycles' = cycles + 1
          /\ pc' = "get_current_board_data"
          /\ chIdx' = chIdx
       \/ /\ ~LoopContinues
          /\ cycles' = cycles
          /\ pc' = AfterLoop
          /\ chIdx' = 1
    /\ UNCHANGED <<configVars, _run, session, boardCalls, count, data, reference_signals,
                   fileVars, exc, polls, pulls, emitted, stopPc, fbVars,
                   asyncVars>>

\* board_shim.get_current_board_data(n): the latest n samples, or all of them when
\* fewer are buffered, in a new array.
CurrentBoardData(n) ==
    [chans |-> boardRows, samples |-> Min(n, count), layout |-> "board_rows_by_samples",
     pull |-> pulls + 1]

\* board_shim.get_board_data(n), which takes the samples out of the ring buffer.
BufferAfterGetBoardData(n) == count - Min(n, count)

\* The ring buffer after get_current_board_data(n): left as it is.
BufferAfterGetCurrentBoardData(n) == count

GetCurrentBoardData ==
    /\ pc = "get_current_board_data"
    /\ data' = CurrentBoardData(cca_buffer_size)
    /\ count' = BufferAfterGetCurrentBoardData(cca_buffer_size)
    /\ pulls' = pulls + 1
    /\ pc' = "select_channels"
    /\ UNCHANGED <<configVars, _run, chIdx, session, boardCalls, reference_signals,
                   fileVars, exc, polls, cycles, emitted, stopPc, fbVars,
                   asyncVars>>

\* data[11] and data[self.channels]: numpy raises IndexError for a row the array lacks.
RowMissing(d) ==
    \/ TimestampRow >= d.chans
    \/ \E i \in 1..Len(channels) : channels[i] >= d.chans

SelectChannels ==
    /\ pc = "select_channels"
    /\ \/ /\ RowMissing(data)
          /\ Raise("IndexError")
          /\ data' = data
       \/ /\ ~RowMissing(data)
          /\ data' = [chans |-> Len(channels), samples |-> data.samples,
                       layout |-> "channels_by_samples", pull |-> data.pull]
          /\ pc' = "process_data"
          /\ exc' = exc
    /\ UNCHANGED <<configVars, _run, chIdx, session, boardCalls, count, reference_signals,
                   fileVars, counterVars, stopPc, fbVars,
                   asyncVars>>

\* data_processor.process_data(data): filters every row, then transposes and applies
\* CAR. BrainFlow's DataFilter is handed each row; what it does with a row of no
\* samples is the library's business, so both outcomes are kept.
ProcessData ==
    /\ pc = "process_data"
    /\ \/ /\ data.samples = 0
          /\ Raise("BrainFlowError")
          /\ data' = data
       \/ /\ data' = [data EXCEPT !.layout = "samples_by_channels"]
          /\ pc' = "record_eeg_data"
          /\ exc' = exc
    /\ UNCHANGED <<configVars, _run, chIdx, session, boardCalls, count, reference_signals,
                   fileVars, counterVars, stopPc, fbVars,
                   asyncVars>>

\* A record_eeg_data that takes the timestamps as well.
RecordEegDataParamsWithTimestamps == {"writer", "data", "samp_timestamps"}

\* def record_eeg_data(writer, data) (recording.py line 61)
RecordEegDataParams == {"writer", "data"}

\* recording.record_eeg_data(writer=..., data=..., samp_timestamps=...) (lines 145-147)
RecordEegDataKeywords == {"writer", "data", "samp_timestamps"}

\* Python binds a call's keyword arguments to the parameters of the function and
\* raises TypeError for a keyword the function does not have.
CallBinds(keywords, params) == keywords \subseteq params

\* recording.record_data (recording.py line 99): writer.writerows(data), one row of
\* the file per row of data.
record_data(rows, nrows, ncols) ==
    rows \o [i \in 1..nrows |-> [kind |-> "data", lead |-> ncols, tail |-> <<>>]]

\* Lines 145-147. When the call returns, one row per sample has been written and
\* run() goes on to sk_findCorr (line 150).
RecordEegData ==
    /\ pc = "record_eeg_data"
    /\ IF CallBinds(RecordEegDataKeywords, RecordEegDataParams)
       THEN /\ eeg_rows' = eeg_rows + data.samples
            /\ csv_rows' = [csv_rows EXCEPT
                               !.eeg = record_data(@, data.samples, data.chans)]
            /\ pc' = "sk_findCorr"
            /\ exc' = exc
       ELSE /\ Raise("TypeError")
            /\ eeg_rows' = eeg_rows
            /\ csv_rows' = csv_rows
    /\ UNCHANGED <<configVars, _run, chIdx, session, boardCalls, count, data,
                   reference_signals, eeg_csv_file, sk_cca_csv, cca_rows, counterVars,
                   stopPc, fbVars,
                   asyncVars>>

(***************************************************************************)
(* run(), after the loop, and uninitialize()                               *)
(***************************************************************************)
CloseWriters ==
    /\ pc = "close_writers"
    /\ eeg_csv_file' = "closed"
    /\ sk_cca_csv' = "closed"
    /\ chIdx' = 1
    /\ pc' = "disable_channels"
    /\ UNCHANGED <<configVars, _run, session, boardCalls, count, data, reference_signals,
                   eeg_rows, cca_rows, csv_rows, exc, counterVars, stopPc, fbVars,
                   asyncVars>>

DisableChannel ==
    /\ pc = "disable_channels"
    /\ \/ /\ chIdx <= Len(channels)
          /\ boardCalls' = Append(boardCalls, "choff")
          /\ chIdx' = chIdx + 1
          /\ pc' = pc
       \/ /\ chIdx > Len(channels)
          /\ pc' = "stop_stream"
          /\ UNCHANGED <<boardCalls, chIdx>>
    /\ UNCHANGED <<configVars, _run, session, count, data, reference_signals, fileVars,
                   exc, counterVars, stopPc, fbVars,
                   asyncVars>>

StopStream ==
    /\ pc = "stop_stream"
    /\ session' = "stopped"
    /\ boardCalls' = Append(boardCalls, "stop_stream")
    /\ pc' = "release_session"
    /\ UNCHANGED <<configVars, _run, chIdx, count, data, reference_signals, fileVars,
                   exc, counterVars, stopPc, fbVars,
                   asyncVars>>

ReleaseSession ==
    /\ pc = "release_session"
    /\ session' = "released"
    /\ boardCalls' = Append(boardCalls, "release_session")
    /\ pc' = "returned"
    /\ UNCHANGED <<configVars, _run, chIdx, count, data, reference_signals, fileVars,
                   exc, counterVars, stopPc, fbVars,
                   asyncVars>>

(***************************************************************************)
(* stop(sig, frame): the SIGINT handler, run by the interpreter between    *)
(* two steps of run() (and in the middle of a sleep).                      *)
(***************************************************************************)
RunEnded == pc \in {"returned", "raised"}

Stop ==
    /\ ~RunEnded
    /\ _run' = FALSE
    /\ stopPc' = IF stopPc = "none" THEN pc ELSE stopPc
    /\ UNCHANGED <<configVars, pc, chIdx, session, boardCalls, count, data,
                   reference_signals, fileVars, exc, counterVars, fbVars,
                   asyncVars>>

(***************************************************************************)
(* The signal source: while it streams, samples arrive in its ring buffer. *)
(***************************************************************************)
SourceSample ==
    /\ session = "streaming"
    /\ count < MaxCount
    /\ count' = count + 1
    /\ UNCHANGED <<configVars, _run, pc, chIdx, session, boardCalls, data,
                   reference_signals, fileVars, exc, counterVars, stopPc, fbVars,
                   asyncVars>>

\* The source loses its stream and with it buffered samples (a disconnect).
SourceDisconnect ==
    /\ session = "streaming"
    /\ count > 0
    /\ \E n \in 0..(count - 1) : count' = n
    /\ UNCHANGED <<configVars, _run, pc, chIdx, session, boardCalls, data,
                   reference_signals, fileVars, exc, counterVars, stopPc, fbVars,
                   asyncVars>>

Next ==
    \/ PrepareSession
    \/ StartStream
    \/ EnableChannel
    \/ InitializeWriters
    \/ CreateAnalysis
    \/ WaitForBuffer
    \/ LoopTest
    \/ GetCurrentBoardData
    \/ SelectChannels
    \/ ProcessData
    \/ RecordEegData
    \/ CloseWriters
    \/ DisableChannel
    \/ StopStream
    \/ ReleaseSession
    \/ Stop
    \/ SourceSample

Spec == Init /\ [][Next]_vars

\* The same program with a signal source that may disconnect.
NextFaulty == Next \/ SourceDisconnect

SpecFaulty == Init /\ [][NextFaulty]_vars

\* The steps of run() itself: the interpreter goes on with the next statement.
RunStep ==
    \/ PrepareSession
    \/ StartStream
    \/ EnableChannel
    \/ InitializeWriters
    \/ CreateAnalysis
    \/ WaitForBuffer
    \/ LoopTest
    \/ GetCurrentBoardData
    \/ SelectChannels
    \/ ProcessData
    \/ RecordEegData
    \/ CloseWriters
    \/ DisableChannel
    \/ StopStream
    \/ ReleaseSession

\* run() keeps executing, and a source that streams keeps delivering samples until
\* its buffer holds a full window. Nothing obliges a stop signal to arrive.
SpecLive == Spec /\ WF_vars(RunStep) /\ WF_vars(SourceSample)

(***************************************************************************)
(* Part 2: FoCAA_KNN.fbcca_analysis (analysis.py lines 243-308).            *)
(*                                                                         *)
(* The window enters through rho: rho[k][j] is max(cca_analysis(...)) of    *)
(* the window filtered by sub-band k against reference j, the value line    *)
(* 295 stores in coeff[k, j]. filtering and cca_analysis are functions of   *)
(* their arguments, so every pass over the grid stores the same rho[k][j].  *)
(* Correlations are counted in units of 1/MaxCorr. The grid values a and b  *)
(* are naturals, and phi is carried as a numerator over the common          *)
(* denominator PhiDen, which leaves every comparison of scores exact.       *)
(***************************************************************************)
MaxSub == 2
MaxCorr == 1
MaxGrid == 2
MaxParam == 1

RECURSIVE Pow(_, _)
Pow(x, n) == IF n = 0 THEN 1 ELSE x * Pow(x, n - 1)

RECURSIVE Fact(_)
Fact(n) == IF n <= 1 THEN 1 ELSE n * Fact(n - 1)

RECURSIVE SumSeq(_, _)
SumSeq(f, n) == IF n = 0 THEN 0 ELSE f[n] + SumSeq(f, n - 1)

\* The common denominator of k^(-a) for k = 1..S.
PhiDen(S, a) == Pow(Fact(S), a)

\* phi without the offset val_b.
PhiWithoutOffset(k, S, a, b) == PhiDen(S, a) \div Pow(k, a)

\* phi = np.power(k, -val_a) + val_b (line 269), times PhiDen(S, a)
Phi(k, S, a, b) == (PhiDen(S, a) \div Pow(k, a)) + b * PhiDen(S, a)

\* np.sum(phi * (coeff**2).T, axis=1) (lines 297-298)
WeightedScore(coeff, S, N, a, b) ==
    [j \in 1..N |-> SumSeq([k \in 1..S |-> Phi(k, S, a, b) * coeff[k][j] * coeff[k][j]], S)]

\* An argmax that counts from 1.
np_argmax_one_based(v) ==
    CHOOSE j \in 1..Len(v) :
        /\ \A i \in 1..Len(v) : v[i] <= v[j]
        /\ \A i \in 1..(j - 1) : v[i] < v[j]

\* np.argmax: the first index of the largest value, counted from 0
np_argmax(v) ==
    (CHOOSE j \in 1..Len(v) :
        /\ \A i \in 1..Len(v) : v[i] <= v[j]
        /\ \A i \in 1..(j - 1) : v[i] < v[j]) - 1

CountOf(labels, l) == Cardinality({t \in 1..Len(labels) : labels[t] = l})

\* np.bincount(labels).argmax() (line 307): the smallest of the most frequent labels
np_bincount_argmax(labels) ==
    LET top == CHOOSE m \in {labels[t] : t \in 1..Len(labels)} :
                   \A t \in 1..Len(labels) : labels[t] <= m
    IN  np_argmax([l \in 1..(top + 1) |-> CountOf(labels, l - 1)])

\* A coeff kept from one call to the next: in a second call the rows not stored yet
\* hold what the call before left in them.
CoeffDuringKept(rho, S, N, p, s) ==
    [k \in 1..S |->
        IF p = 1 /\ k > s /\ pc # "fbcca_returned" THEN [j \in 1..N |-> 0] ELSE rho[k]]

\* coeff (line 263) when the pass of grid pair p has stored the rows of sub-bands
\* 1..s: during the first pass the later rows still hold np.zeros, afterwards they
\* hold what the pass before stored.
CoeffDuring(rho, S, N, p, s) ==
    [k \in 1..S |-> IF p = 1 /\ k > s THEN [j \in 1..N |-> 0] ELSE rho[k]]

\* The score under the first pair of the grid at every execution.
ScoreAtFirstPair(in, N, t) ==
    LET S == in.nbands
        p == ((t - 1) \div S) + 1
        s == ((t - 1) % S) + 1
    IN  WeightedScore(CoeffDuring(in.rho, S, N, p, s), S, N, in.a[1], in.b[1])

\* The score line 297 computes at its t-th execution: it is inside the sub-band
\* loop (line 272), so it runs once per grid pair and sub-band.
ScoreAt(in, N, t) ==
    LET S == in.nbands
        p == ((t - 1) \div S) + 1
        s == ((t - 1) % S) + 1
        ia == ((p - 1) \div Len(in.b)) + 1
        ib == ((p - 1) % Len(in.b)) + 1
    IN  WeightedScore(CoeffDuring(in.rho, S, N, p, s), S, N, in.a[ia], in.b[ib])

\* labels.append(label) (line 299) runs as often as line 297.
VoteCount(in) == Len(in.a) * Len(in.b) * in.nbands

fbcca_analysis(in, N) ==
    LET T == VoteCount(in)
        labels == [t \in 1..T |-> np_argmax(ScoreAt(in, N, t))]
    IN  [c |-> ScoreAt(in, N, T),
         label |-> np_bincount_argmax(labels),
         labels |-> labels]

\* Arguments of a call: the number of sub-bands of filter_banks, the correlations
\* of the window, and the grids a and b. A grid lists its values in increasing
\* order, each once.
GridLists ==
    {g \in UNION {[1..n -> 0..MaxParam] : n \in 1..MaxGrid} :
        \A i, j \in 1..Len(g) : i < j => g[i] < g[j]}

\* The correlation tables of S sub-bands against N references.
CorrTables(S, N) == [1..S -> [1..N -> 0..MaxCorr]]

\* The frequency list of the classifier under test: two targets, the shortest list
\* on which labels differ.
FbFrequencies == <<8, 10>>

\* The controls of the analyzer that calls it (ssvep_analyzer_async.py line 54):
\* None or any list, whose length nothing compares with that of the frequencies.
ControlNames == <<"W", "A">>
ControlLists == {SubSeq(ControlNames, 1, n) : n \in 0..Len(ControlNames)}

\* A FoCAA_KNN built for FbFrequencies, about to be called.
FbInit ==
    /\ frequencies = FbFrequencies
    /\ channels = <<1>>
    /\ cca_buffer_size = MaxWindow
    /\ boardRows = TimestampRow + 1
    /\ _run = TRUE
    /\ pc = "fbcca_analysis"
    /\ chIdx = 1
    /\ session = "closed"
    /\ boardCalls = <<>>
    /\ count = 0
    /\ data = NoData
    /\ reference_signals = Len(frequencies)
    /\ eeg_csv_file = "unopened"
    /\ sk_cca_csv = "unopened"
    /\ eeg_rows = 0
    /\ cca_rows = 0
    /\ csv_rows = NoRows
    /\ emitted = 0
    /\ exc = "none"
    /\ polls = 0
    /\ pulls = 0
    /\ cycles = 0
    /\ stopPc = "none"
    /\ \E S \in 1..MaxSub, ga \in GridLists, gb \in GridLists :
           \E r \in CorrTables(S, Len(FbFrequencies)) :
               fb_in = [nbands |-> S, rho |-> r, a |-> ga, b |-> gb]
    /\ fb_out = NoResult
    /\ fb_prev = NoResult
    /\ fn_call = NoFn
    /\ fn_ret = NoFn
    /\ AsyncIdle
    /\ controls \in ControlLists

\* A call of fbcca_analysis, and a second call with the same window and the same
\* configuration on the same instance. filtering works on data.copy() (line 452)
\* and nothing is assigned to self: the arguments and the instance are as before.
FbccaCall ==
    /\ pc \in {"fbcca_analysis", "fbcca_returned"}
    /\ fb_out' = fbcca_analysis(fb_in, reference_signals)
    /\ fb_prev' = fb_out
    /\ pc' = IF pc = "fbcca_analysis" THEN "fbcca_returned" ELSE "fbcca_repeated"
    /\ UNCHANGED <<configVars, _run, chIdx, session, boardCalls, count, data,
                   reference_signals, fileVars, exc, counterVars, stopPc, fb_in,
                   fn_call, fn_ret, asyncVars>>

\* list[i] of a Python list, for an index that is not negative.
getitem(list, i) ==
    IF i < Len(list) THEN [raised |-> "none", value |-> list[i + 1]]
                     ELSE [raised |-> "IndexError"]

\* What run() does with the label: self.frequencies[predicted_label_fbcca]
\* (ssvep_analyzer.py line 202, ssvep_analyzer_async.py line 368) and, if
\* self.controls is neither None nor empty, self.controls[predicted_label_fbcca]
\* (ssvep_analyzer_async.py lines 386-388), then the record for the UI (lines
\* 391-397). Nothing catches an IndexError.
PredictionLookups ==
    /\ pc = "fbcca_returned"
    /\ LET freq == getitem(frequencies, fb_out.label)
           ctrl == IF controls # <<>> THEN getitem(controls, fb_out.label)
                                     ELSE [raised |-> "none", value |-> "None"]
       IN  IF freq.raised # "none" \/ ctrl.raised # "none"
           THEN /\ Raise("IndexError")
                /\ command' = command
           ELSE /\ pc' = "prediction_sent"
                /\ exc' = exc
                /\ command' = [sent |-> TRUE, frequency |-> freq.value,
                               predicted_command |-> ctrl.value]
    /\ UNCHANGED <<configVars, _run, chIdx, session, boardCalls, count, data,
                   reference_signals, fileVars, counterVars, stopPc, fbVars,
                   board_shim, board_shim1, sampling_rate, focaa_knn, focca_knn,
                   boards_initialized, reinit, reconfigs, correlated, controls>>

FbNext == FbccaCall \/ PredictionLookups

FbSpec == FbInit /\ [][FbNext]_vars

(***************************************************************************)
(* Part 3: the methods of FoCAA_KNN (analysis.py) and of DataProcessor      *)
(* (processing.py), one call at a time.                                    *)
(*                                                                         *)
(* fn_call names a method and its arguments, fn_ret what the call returned  *)
(* or raised. Arrays are carried by their numpy shape where a claim is      *)
(* about dimensions.                                                       *)
(***************************************************************************)
MaxRate == 2

\* Sampling rates and window lengths, with 0 and a negative value.
SamplingRates == -1..MaxRate
WindowLengths == -1..MaxWindow

\* ceil(p / q) for q # 0
Ceil(p, q) == IF q > 0 THEN -((-p) \div q) ELSE -(p \div (-q))

\* len(np.arange(0, length / fs, step=1.0 / fs)) (lines 73-75):
\* max(0, ceil((stop - start) / step)) with stop = length / fs and step = 1 / fs,
\* so stop / step = (length * fs) / (fs * 1).
np_arange_len(length, fs) ==
    LET n == Ceil(length * fs, fs)
    IN  IF n > 0 THEN n ELSE 0

\* get_reference_signals (lines 60-89): four rows, one per sine and cosine of the
\* two harmonics, over the time vector t. length / 0 raises ZeroDivisionError.
get_reference_signals(length, fs) ==
    IF fs = 0
    THEN [raised |-> "ZeroDivisionError", shape |-> <<>>]
    ELSE [raised |-> "none", shape |-> <<4, np_arange_len(length, fs)>>]

\* __init__ (lines 42-56): np.array of one reference set per frequency, shape
\* (N, 4, L); np.array([]) has shape (0,).
FoCAA_KNN_init(freqs, fs, length) ==
    LET ref == get_reference_signals(length, fs)
    IN  IF Len(freqs) = 0 THEN [raised |-> "none", shape |-> <<0>>]
        ELSE IF ref.raised # "none" THEN ref
        ELSE [raised |-> "none", shape |-> <<Len(freqs)>> \o ref.shape]

\* x.T of a two-dimensional array
np_transpose(shape) == <<shape[2], shape[1]>>

\* The shape of x * y for a one-dimensional x and a two-dimensional y whose last
\* dimension is len(x).
np_broadcast(x, y) == <<y[1], IF y[2] = 1 THEN x[1] ELSE y[2]>>

\* np.sum over the other axis.
np_sum_other_axis(shape, axis) == <<shape[axis + 1]>>

\* np.sum(..., axis=axis) of a two-dimensional array: that axis is removed
np_sum(shape, axis) == <<shape[2 - axis]>>

\* sk_findCorr (lines 103-132): result = np.zeros(self.reference_signals.shape[0]),
\* one entry stored per reference set.
sk_findCorr(refs) == [raised |-> "none", shape |-> <<refs[1]>>]

\* The shapes of fbcca_analysis (lines 258-308) for S sub-bands: k and phi (S,),
\* coeff (S, N), the score np.sum(phi * (coeff**2).T, axis=1). np.argmax of an
\* empty score raises ValueError.
fbcca_shapes(refs, S) ==
    LET coeff == <<S, refs[1]>>
        score == np_sum(np_broadcast(<<S>>, np_transpose(coeff)), 1)
    IN  IF score[1] = 0
        THEN [raised |-> "ValueError", shape |-> <<>>, coeff |-> coeff]
        ELSE [raised |-> "none", shape |-> score, coeff |-> coeff]

(***************************************************************************)
(* cca_analysis (lines 311-392). A call is carried by the widths p and q of *)
(* data and data_ref, by what the two diagonal blocks of the covariance     *)
(* are to np.linalg.det and np.linalg.inv, and by the eigenvalues of        *)
(* corr_coef, each a pair <<real part, imaginary part>>.                    *)
(***************************************************************************)
MaxDim == 2
MaxEig == 2
MaxExp == 14

\* np.cov and everything computed from it is float64: 53 significant bits.
Float64Mantissa == 53

\* coef * eps = 10**(-5) * np.finfo(np.float32).eps (lines 348, 355) lies between
\* 2^(-40) and 2^(-39).
RegularizerExp == -40

\* A block is "full" (det # 0), "zero" (every entry 0) or "dependent": rows that
\* are multiples of each other, det = 0, diagonal entries between 2^exp and
\* 2^(exp + 1). A 1x1 block with det = 0 is zero.
Blocks(dim) ==
    {[kind |-> "full", exp |-> 0], [kind |-> "zero", exp |-> 0]}
        \cup (IF dim >= 2 THEN {[kind |-> "dependent", exp |-> e] : e \in 0..MaxExp}
                         ELSE {})

\* np.linalg.det(block) != 0 (line 350)
DetNonZero(block) == block.kind = "full"

\* v + coef * eps = v in float64: half the spacing of the floats at v, 2^(exp - 53),
\* is more than coef * eps.
Absorbed(exp) == exp - Float64Mantissa > RegularizerExp

\* block + coef * eps * np.eye(n) (lines 356-357): a zero block becomes coef * eps
\* * I; a dependent block becomes full unless its diagonal absorbs the term.
Regularize(block) ==
    IF block.kind = "dependent" /\ Absorbed(block.exp)
    THEN block
    ELSE [kind |-> "full", exp |-> block.exp]

\* np.linalg.inv raises LinAlgError("Singular matrix") for a singular matrix.
np_linalg_inv(block) == IF block.kind = "full" THEN "none" ELSE "LinAlgError"

\* Lines 350-357: both blocks are inverted as they are, or both regularized first.
Inversion(cx, cy) ==
    LET rx == IF DetNonZero(cx) /\ DetNonZero(cy) THEN cx ELSE Regularize(cx)
        ry == IF DetNonZero(cx) /\ DetNonZero(cy) THEN cy ELSE Regularize(cy)
    IN  IF np_linalg_inv(rx) # "none" THEN np_linalg_inv(rx) ELSE np_linalg_inv(ry)

\* z < 0 for a complex z: numpy orders complex numbers by real part, then by
\* imaginary part.
np_less_zero(z) == z[1] < 0 \/ (z[1] = 0 /\ z[2] < 0)

\* No clamp.
Unclamped(eig) == eig

\* eig_vals[eig_vals < 0] = 0 (line 381)
Clamp(eig) == [i \in 1..Len(eig) |-> IF np_less_zero(eig[i]) THEN <<0, 0>> ELSE eig[i]]

np_real(eig) == [i \in 1..Len(eig) |-> eig[i][1]]

RECURSIVE Insert(_, _)
Insert(x, sorted) ==
    IF sorted = <<>> \/ x <= Head(sorted) THEN <<x>> \o sorted
    ELSE <<Head(sorted)>> \o Insert(x, Tail(sorted))

\* np.sort: ascending
RECURSIVE np_sort(_)
np_sort(v) == IF v = <<>> THEN <<>> ELSE Insert(Head(v), np_sort(Tail(v)))

\* v[::-1]
Reversed(v) == [i \in 1..Len(v) |-> v[Len(v) + 1 - i]]

\* np.sqrt of one value, to the integer below; nan, carried as -1, for a negative
\* value.
np_sqrt(x) == IF x < 0 THEN -1 ELSE CHOOSE r \in 0..x : r * r <= x /\ x < (r + 1) * (r + 1)

\* v[:n]
Leading(v, n) == SubSeq(v, 1, Min(n, Len(v)))

\* Lines 377-392
Coefficients(eig, n) ==
    LET sorted == Reversed(np_sort(np_real(Clamp(eig))))
    IN  Leading([i \in 1..Len(sorted) |-> np_sqrt(sorted[i])], n)

\* An except clause around the inversion that answers with zeros.
cca_analysis_zeros_on_error(in) ==
    [raised |-> "none",
     regularized |-> ~(DetNonZero(in.cx) /\ DetNonZero(in.cy)),
     coeffs |-> IF Inversion(in.cx, in.cy) # "none"
                THEN [i \in 1..Min(in.p, in.q) |-> 0]
                ELSE Coefficients(in.eig, Min(in.p, in.q))]

cca_analysis(in) ==
    [raised |-> Inversion(in.cx, in.cy),
     regularized |-> ~(DetNonZero(in.cx) /\ DetNonZero(in.cy)),
     coeffs |-> IF Inversion(in.cx, in.cy) # "none"
                THEN <<>>
                ELSE Coefficients(in.eig, Min(in.p, in.q))]

\* Eigenvalues of the max(p, q) x max(p, q) matrix corr_coef (line 358).
Eigenvalues(m) == [1..m -> (-1..MaxEig) \X (-1..1)]

Max(x, y) == IF x >= y THEN x ELSE y

\* Calls with any eigenvalues on full blocks, and calls with any blocks.
CcaCalls ==
    UNION {{[p |-> p, q |-> q, cx |-> [kind |-> "full", exp |-> 0],
             cy |-> [kind |-> "full", exp |-> 0], eig |-> e] :
               e \in Eigenvalues(Max(p, q))}
           \cup {[p |-> p, q |-> q, cx |-> bx, cy |-> by,
                  eig |-> [i \in 1..Max(p, q) |-> <<1, 0>>]] :
                     bx \in Blocks(Min(p, q)), by \in Blocks(Max(p, q))} :
           p \in 1..MaxDim, q \in 1..MaxDim}


\* The filter kinds with a branch in filtering (lines 467-474).
DesignedFilters == {"low", "high", "bandpass", "bandstop"}

\* Values of type_filter: the designed kinds, the 'stop' of the docstring (line
\* 422) and one more.
FilterTypes == DesignedFilters \cup {"stop", "notch"}

Switches == {"on", "off"}

\* filtering (lines 398-506): b, a are assigned for a designed kind only, and there
\* is no else branch; the notch filter runs when notch_filter is "on"; b, a are
\* read only when filter_active is "on" (line 489), and an unassigned local raises
\* UnboundLocalError there.
filtering(type_filter, filter_active, notch_filter) ==
    LET notched == IF notch_filter = "on" THEN <<"iirnotch">> ELSE <<>>
    IN  IF filter_active = "on" /\ type_filter \notin DesignedFilters
        THEN [raised |-> "UnboundLocalError", filters |-> <<>>]
        ELSE [raised |-> "none",
              filters |-> IF filter_active = "on" THEN notched \o <<type_filter>>
                                                 ELSE notched]

\* No transpose before the filters.
PreTransposeNever(shape) == FALSE

\* Lines 460-465: a two-dimensional array with more rows than columns is
\* transposed before the filters.
PreTranspose(shape) == shape[1] > shape[2]

\* No transpose after the filters.
PostTransposeNever(shape) == FALSE

\* Lines 498-503: an array with fewer rows than columns is transposed after them.
PostTranspose(shape) == shape[1] < shape[2]

\* The shape of the array handed to signal.filtfilt, which filters along the last
\* axis and keeps the shape, and the shape of the array returned (line 505).
filtering_shapes(shape) ==
    LET work == IF PreTranspose(shape) THEN np_transpose(shape) ELSE shape
    IN  [filtered |-> work,
         shape |-> IF PostTranspose(work) THEN np_transpose(work) ELSE work]

\* A call of filtering on a two-dimensional array: signal.filtfilt raises
\* ValueError for an axis too short for its padding, which is scipy's business and
\* is given with the call. The notch filter runs first (line 487), then b, a are
\* read (line 496).
filtering_call(call) ==
    LET outcome == filtering(call.type_filter, call.filter_active, call.notch_filter)
        failed == [raised |-> "ValueError", filters |-> <<>>, filtered |-> <<>>,
                   shape |-> <<>>]
    IN  IF call.notch_filter = "on" /\ call.filtfilt = "ValueError" THEN failed
        ELSE IF outcome.raised # "none"
        THEN outcome @@ [filtered |-> <<>>, shape |-> <<>>]
        ELSE IF call.filter_active = "on" /\ call.filtfilt = "ValueError" THEN failed
        ELSE outcome @@ filtering_shapes(call.shape)

(***************************************************************************)
(* DataProcessor (processing.py). A sample is carried by where it came from *)
(* in the matrix passed by the caller (raw) and by the DataFilter           *)
(* operations applied to it since (ops); a sample of the CAR output is a    *)
(* combination of the samples of one row, with integer numerators num over  *)
(* the denominator den.                                                    *)
(***************************************************************************)
\* The matrix the caller passes: channels x samples.
InputMatrix(nchans, nsamples) ==
    [i \in 1..nchans |-> [t \in 1..nsamples |-> [raw |-> <<i, t>>, ops |-> <<>>]]]

\* The filters in another order: the band-stops before the band-pass.
ChannelFiltersBandstopFirst ==
    <<[op |-> "detrend", kind |-> "CONSTANT", start_freq |-> 0, stop_freq |-> 0,
       order |-> 0],
      [op |-> "perform_bandstop", kind |-> "BUTTERWORTH_ZERO_PHASE", start_freq |-> 48,
       stop_freq |-> 52, order |-> 2],
      [op |-> "perform_bandstop", kind |-> "BUTTERWORTH_ZERO_PHASE", start_freq |-> 58,
       stop_freq |-> 62, order |-> 2],
      [op |-> "perform_bandpass", kind |-> "BUTTERWORTH_ZERO_PHASE", start_freq |-> 6,
       stop_freq |-> 40, order |-> 2]>>

\* The DataFilter calls of the loop body (lines 40-71), in the order written.
ChannelFilters ==
    <<[op |-> "detrend", kind |-> "CONSTANT", start_freq |-> 0, stop_freq |-> 0,
       order |-> 0],
      [op |-> "perform_bandpass", kind |-> "BUTTERWORTH_ZERO_PHASE", start_freq |-> 6,
       stop_freq |-> 40, order |-> 2],
      [op |-> "perform_bandstop", kind |-> "BUTTERWORTH_ZERO_PHASE", start_freq |-> 48,
       stop_freq |-> 52, order |-> 2],
      [op |-> "perform_bandstop", kind |-> "BUTTERWORTH_ZERO_PHASE", start_freq |-> 58,
       stop_freq |-> 62, order |-> 2]>>

\* One DataFilter call on data[i]: BrainFlow writes the result into the array it
\* is given (the calls of lines 40-71 use no return value), and data[i] is a view
\* of row i.
DataFilterInPlace(matrix, i, f) ==
    [matrix EXCEPT ![i] = [t \in 1..Len(@) |-> [@[t] EXCEPT !.ops = Append(@, f)]]]

\* The loop of lines 38-71 from channel i and filter j on: the matrix after it and
\* the calls made, in order.
RECURSIVE FilterLoop(_, _, _)
FilterLoop(state, i, j) ==
    IF i > Len(state.data) THEN state
    ELSE IF j > Len(ChannelFilters) THEN FilterLoop(state, i + 1, 1)
    ELSE FilterLoop([data |-> DataFilterInPlace(state.data, i, ChannelFilters[j]),
                     log |-> Append(state.log, [channel |-> i] @@ ChannelFilters[j])],
                    i, j + 1)

\* m.T of an nrows x ncols matrix
MatrixT(m, nrows, ncols) == [t \in 1..ncols |-> [i \in 1..nrows |-> m[i][t]]]

\* Nothing subtracted.
CarNumeratorUncentred(c, j, nchans, reference_channel) == IF j = c THEN 1 ELSE 0

\* car (lines 92-118): the weight of input channel j in output channel c, as a
\* numerator over CarDenominator. Without a reference channel the mean of the row
\* is subtracted from every channel (line 118); with one, that channel is
\* subtracted from the others (line 104). reference_channel 0 is None.
CarNumerator(c, j, nchans, reference_channel) ==
    IF reference_channel = 0
    THEN (IF j = c THEN nchans ELSE 0) - 1
    ELSE (IF j = c THEN 1 ELSE 0)
             - (IF c # reference_channel /\ j = reference_channel THEN 1 ELSE 0)

CarDenominator(nchans, reference_channel) == IF reference_channel = 0 THEN nchans ELSE 1

\* car(data, reference_channel) for data of nsamples x nchans: a copy (line 92).
car(matrix, nsamples, nchans, reference_channel) ==
    [t \in 1..nsamples |->
        [c \in 1..nchans |->
            [of |-> matrix[t],
             num |-> [j \in 1..nchans |-> CarNumerator(c, j, nchans, reference_channel)],
             den |-> CarDenominator(nchans, reference_channel)]]]

\* process_data (lines 38-79): what the caller's matrix holds after the call, the
\* matrix returned, the array whose memory it uses (data.T is a view of data,
\* data_car of line 92 a copy of it) and the steps taken.
process_data(matrix, nchans, nsamples) ==
    LET filtered == FilterLoop([data |-> matrix, log |-> <<>>], 1, 1)
    IN  [raised |-> "none",
         data |-> filtered.data,
         result |-> car(MatrixT(filtered.data, nchans, nsamples), nsamples, nchans, 0),
         base |-> "data_car",
         log |-> filtered.log \o <<[op |-> "transpose"], [op |-> "car"]>>]

\* An instance built from the arguments of its constructor.
KnnConfigs ==
    [frequencies : FrequencyLists, sampling_rate : SamplingRates,
     cca_buffer_size : WindowLengths]

FnIdle ==
    /\ frequencies = <<>>
    /\ channels = <<1>>
    /\ cca_buffer_size = MaxWindow
    /\ boardRows = TimestampRow + 1
    /\ _run = TRUE
    /\ pc = "fn_call"
    /\ chIdx = 1
    /\ session = "closed"
    /\ boardCalls = <<>>
    /\ count = 0
    /\ data = NoData
    /\ reference_signals = -1
    /\ eeg_csv_file = "unopened"
    /\ sk_cca_csv = "unopened"
    /\ eeg_rows = 0
    /\ cca_rows = 0
    /\ csv_rows = NoRows
    /\ emitted = 0
    /\ exc = "none"
    /\ polls = 0
    /\ pulls = 0
    /\ cycles = 0
    /\ stopPc = "none"
    /\ fb_in = NoCall
    /\ fb_out = NoResult
    /\ fb_prev = NoResult
    /\ fn_ret = NoFn
    /\ AsyncIdle
    /\ controls = <<>>

FnInit ==
    /\ FnIdle
    /\ \/ \E k \in KnnConfigs : fn_call = [fn |-> "sk_findCorr", knn |-> k]
       \/ \E k \in KnnConfigs, S \in 1..MaxSub :
              fn_call = [fn |-> "fbcca_analysis", knn |-> k, nbands |-> S]
       \/ \E c \in CcaCalls, caller \in {"cca_analysis", "fbcca_cca"} :
              fn_call = [fn |-> caller, cca |-> c]
       \/ \E t \in FilterTypes, active \in Switches, notch \in Switches,
             r \in 1..MaxWindow, c \in 1..MaxChannels, f \in {"none", "ValueError"} :
              fn_call = [fn |-> "filtering", type_filter |-> t,
                         filter_active |-> active, notch_filter |-> notch,
                         shape |-> <<r, c>>, filtfilt |-> f]
       \/ \E nchans \in 0..MaxChannels, nsamples \in 1..MaxWindow :
              \/ fn_call = [fn |-> "process_data", nchans |-> nchans,
                            nsamples |-> nsamples,
                            data |-> InputMatrix(nchans, nsamples)]
              \/ \E reference_channel \in 0..nchans :
                     fn_call = [fn |-> "car", nchans |-> nchans, nsamples |-> nsamples,
                                data |-> MatrixT(InputMatrix(nchans, nsamples),
                                                 nchans, nsamples),
                                reference_channel |-> reference_channel]
       \/ \E length \in WindowLengths, fs \in SamplingRates :
              fn_call = [fn |-> "get_reference_signals", length |-> length,
                         sampling_rate |-> fs]

FnReturn(r) ==
    /\ fn_ret' = r
    /\ pc' = "fn_returned"
    /\ UNCHANGED <<configVars, _run, chIdx, session, boardCalls, count, data,
                   reference_signals, fileVars, exc, counterVars, stopPc, fb_in, fb_out,
                   fb_prev, fn_call, asyncVars>>

\* FoCAA_KNN(...) followed by sk_findCorr(n_components, data)
SkFindCorrCall ==
    /\ pc = "fn_call"
    /\ fn_call.fn = "sk_findCorr"
    /\ LET knn == FoCAA_KNN_init(fn_call.knn.frequencies, fn_call.knn.sampling_rate,
                                 fn_call.knn.cca_buffer_size)
       IN  FnReturn(IF knn.raised # "none"
                    THEN [fn |-> "__init__", raised |-> knn.raised]
                    ELSE [fn |-> "sk_findCorr", refs |-> knn.shape]
                             @@ sk_findCorr(knn.shape))

\* FoCAA_KNN(...) followed by fbcca_analysis(data, a, b, filter_banks, ...)
FbccaShapesCall ==
    /\ pc = "fn_call"
    /\ fn_call.fn = "fbcca_analysis"
    /\ LET knn == FoCAA_KNN_init(fn_call.knn.frequencies, fn_call.knn.sampling_rate,
                                 fn_call.knn.cca_buffer_size)
       IN  FnReturn(IF knn.raised # "none"
                    THEN [fn |-> "__init__", raised |-> knn.raised]
                    ELSE [fn |-> "fbcca_analysis", refs |-> knn.shape]
                             @@ fbcca_shapes(knn.shape, fn_call.nbands))

\* cca_analysis(data, data_ref)
CcaAnalysisCall ==
    /\ pc = "fn_call"
    /\ fn_call.fn = "cca_analysis"
    /\ FnReturn([fn |-> "cca_analysis"] @@ cca_analysis(fn_call.cca))

\* fbcca_analysis with one sub-band, one reference and one grid pair (a = b = 0):
\* lines 288-299 call cca_analysis once, with nothing to catch what it raises, and
\* vote on coeff[0, 0] = np.max(cano_corr).
FbccaCcaCall ==
    /\ pc = "fn_call"
    /\ fn_call.fn = "fbcca_cca"
    /\ LET cano_corr == cca_analysis(fn_call.cca)
           top == CHOOSE x \in {cano_corr.coeffs[i] : i \in 1..Len(cano_corr.coeffs)} :
                      \A i \in 1..Len(cano_corr.coeffs) : cano_corr.coeffs[i] <= x
       IN  FnReturn(IF cano_corr.raised # "none"
                    THEN [fn |-> "fbcca_cca", raised |-> cano_corr.raised,
                          c |-> <<>>, label |-> -1]
                    ELSE [fn |-> "fbcca_cca", raised |-> "none",
                          c |-> <<top * top>>, label |-> 0])

\* get_reference_signals(length, target_freq) on an instance of that sampling rate
GetReferenceSignalsCall ==
    /\ pc = "fn_call"
    /\ fn_call.fn = "get_reference_signals"
    /\ FnReturn([fn |-> "get_reference_signals"]
                    @@ get_reference_signals(fn_call.length, fn_call.sampling_rate))

\* filtering(data, ..., filter_active, notch_filter, type_filter)
FilteringCall ==
    /\ pc = "fn_call"
    /\ fn_call.fn = "filtering"
    /\ FnReturn([fn |-> "filtering"] @@ filtering_call(fn_call))

\* DataProcessor.process_data(data)
ProcessDataCall ==
    /\ pc = "fn_call"
    /\ fn_call.fn = "process_data"
    /\ FnReturn([fn |-> "process_data"]
                    @@ process_data(fn_call.data, fn_call.nchans, fn_call.nsamples))

\* DataProcessor.car(data, reference_channel)
CarCall ==
    /\ pc = "fn_call"
    /\ fn_call.fn = "car"
    /\ FnReturn([fn |-> "car", raised |-> "none",
                 result |-> car(fn_call.data, fn_call.nsamples, fn_call.nchans,
                                fn_call.reference_channel)])

FnNext ==
    \/ ProcessDataCall
    \/ CarCall
    \/ GetReferenceSignalsCall
    \/ FilteringCall
    \/ SkFindCorrCall
    \/ FbccaShapesCall
    \/ CcaAnalysisCall
    \/ FbccaCcaCall

FnSpec == FnInit /\ [][FnNext]_vars

(***************************************************************************)
(* Part 4: recording.py, the two files of run() driven through the          *)
(* functions of the module.                                                *)
(***************************************************************************)
MaxRows == 2

\* A row with the stimulus flag only, as in the version commented out at
\* recording.py lines 111-115.
record_cca_data_stimuli_only(rows, ncoefs) ==
    Append(rows, [kind |-> "data", lead |-> ncoefs, tail |-> <<"stimuli">>])

\* recording.record_cca_data (recording.py lines 88-89):
\* np.append(cca_coefs, [stimuli, frequency, time]) written as one row
record_cca_data(rows, ncoefs) ==
    Append(rows, [kind |-> "data", lead |-> ncoefs,
                  tail |-> <<"stimuli", "frequency", "time">>])

RecInit ==
    /\ frequencies \in FrequencyLists
    /\ channels \in ChannelLists
    /\ cca_buffer_size \in 1..MaxWindow
    /\ boardRows = TimestampRow + 1
    /\ _run = TRUE
    /\ pc = "rec_unopened"
    /\ chIdx = 1
    /\ session = "closed"
    /\ boardCalls = <<>>
    /\ count = 0
    /\ data = NoData
    /\ reference_signals = Len(frequencies)
    /\ eeg_csv_file = "unopened"
    /\ sk_cca_csv = "unopened"
    /\ eeg_rows = 0
    /\ cca_rows = 0
    /\ csv_rows = NoRows
    /\ emitted = 0
    /\ exc = "none"
    /\ polls = 0
    /\ pulls = 0
    /\ cycles = 0
    /\ stopPc = "none"
    /\ fb_in = NoCall
    /\ fb_out = NoResult
    /\ fb_prev = NoResult
    /\ fn_call = NoFn
    /\ fn_ret = NoFn
    /\ AsyncIdle
    /\ controls = <<>>

\* The two initialize_writer calls of run() (ssvep_analyzer.py lines 85-92)
RecInitializeWriters ==
    /\ pc = "rec_unopened"
    /\ eeg_csv_file' = "open"
    /\ sk_cca_csv' = "open"
    /\ csv_rows' = [eeg |-> initialize_writer(EegHeader),
                    cca |-> initialize_writer(CcaHeader)]
    /\ pc' = "rec_open"
    /\ UNCHANGED <<configVars, _run, chIdx, session, boardCalls, count, data,
                   reference_signals, eeg_rows, cca_rows, exc, counterVars, stopPc, fbVars,
                   asyncVars>>

\* record_eeg_data(writer, data) with a window of samples x channels
\* (recording.py lines 61-68)
RecRecordEegData ==
    /\ pc = "rec_open"
    /\ eeg_rows + cca_buffer_size <= MaxRows
    /\ eeg_rows' = eeg_rows + cca_buffer_size
    /\ csv_rows' = [csv_rows EXCEPT
                       !.eeg = record_data(@, cca_buffer_size, Len(channels))]
    /\ UNCHANGED <<configVars, _run, pc, chIdx, session, boardCalls, count, data,
                   reference_signals, eeg_csv_file, sk_cca_csv, cca_rows, exc,
                   counterVars, stopPc, fbVars,
                   asyncVars>>

\* record_cca_data(writer, cca_coefs=sk_result, ...) with the result of sk_findCorr
\* (ssvep_analyzer.py lines 150-159)
RecRecordCcaData ==
    /\ pc = "rec_open"
    /\ cca_rows < MaxRows
    /\ cca_rows' = cca_rows + 1
    /\ csv_rows' = [csv_rows EXCEPT
                       !.cca = record_cca_data(@, sk_findCorr(<<reference_signals>>).shape[1])]
    /\ UNCHANGED <<configVars, _run, pc, chIdx, session, boardCalls, count, data,
                   reference_signals, eeg_csv_file, sk_cca_csv, eeg_rows, exc,
                   counterVars, stopPc, fbVars,
                   asyncVars>>

\* The two uninitialize_writer calls (ssvep_analyzer.py lines 218-219)
RecUninitializeWriters ==
    /\ pc = "rec_open"
    /\ eeg_csv_file' = "closed"
    /\ sk_cca_csv' = "closed"
    /\ pc' = "rec_closed"
    /\ UNCHANGED <<configVars, _run, chIdx, session, boardCalls, count, data,
                   reference_signals, eeg_rows, cca_rows, csv_rows, exc, counterVars,
                   stopPc, fbVars,
                   asyncVars>>

RecNext ==
    \/ RecInitializeWriters
    \/ RecRecordEegData
    \/ RecRecordCcaData
    \/ RecUninitializeWriters

RecSpec == RecInit /\ [][RecNext]_vars

(***************************************************************************)
(* Part 5: the async analyzer (ssvep_analyzer_async.py): run() and the      *)
(* reinitialize_boards task that a settings change of the UI schedules, as  *)
(* coroutines of one event loop. A step is the code between two awaits.     *)
(*                                                                         *)
(* __init__ never assigns self.board_shim, which initialize() reads first:  *)
(* "unset" is the analyzer as the class leaves it, "set" one whose embedding *)
(* program has assigned the attribute.                                     *)
(***************************************************************************)
MaxReconfigs == 2
MaxCycles == 2

\* The frequency list and window length of the analyzer (lines 53, 74).
AsyncFrequencies == <<8, 10>>

\* FoCAA_KNN(self.n_components, self.frequencies, rate, self.cca_buffer_size): the
\* values its reference signals are generated from.
FoCAA_KNN(rate) ==
    [built |-> TRUE, frequencies |-> frequencies, sampling_rate |-> rate,
     cca_buffer_size |-> cca_buffer_size]

AsyncInit ==
    /\ frequencies = AsyncFrequencies
    /\ channels = <<1>>
    /\ cca_buffer_size = MaxWindow
    /\ boardRows = TimestampRow + 1
    /\ _run = TRUE
    /\ pc = "async_initialize"
    /\ chIdx = 1
    /\ session = "closed"
    /\ boardCalls = <<>>
    /\ count = 0
    /\ data = NoData
    /\ reference_signals = -1
    /\ eeg_csv_file = "unopened"
    /\ sk_cca_csv = "unopened"
    /\ eeg_rows = 0
    /\ cca_rows = 0
    /\ csv_rows = NoRows
    /\ emitted = 0
    /\ exc = "none"
    /\ polls = 0
    /\ pulls = 0
    /\ cycles = 0
    /\ stopPc = "none"
    /\ fb_in = NoCall
    /\ fb_out = NoResult
    /\ fb_prev = NoResult
    /\ fn_call = NoFn
    /\ fn_ret = NoFn
    /\ board_shim \in {"unset", "set"}
    /\ board_shim1 = 0
    /\ sampling_rate = 0
    /\ focaa_knn = NoKnn
    /\ focca_knn = NoKnn
    /\ boards_initialized = FALSE
    /\ reinit = "idle"
    /\ reconfigs = 0
    /\ correlated = NoKnn
    /\ controls = <<>>
    /\ command = NoCommand

\* What no step of the async analyzer changes.
AsyncFrame ==
    UNCHANGED <<configVars, chIdx, session, boardCalls, count, data, reference_signals,
                fileVars, polls, pulls, emitted, stopPc, fbVars, board_shim, controls,
                command>>

\* on_settings_changed (lines 94-127): new BoardShim objects for the boards chosen
\* in the UI, and a reinitialize_boards task. One task at a time.
OnSettingsChanged ==
    /\ reinit = "idle"
    /\ reconfigs < MaxReconfigs
    /\ \E rate \in 1..MaxRate : board_shim1' = rate
    /\ reinit' = "scheduled"
    /\ reconfigs' = reconfigs + 1
    /\ AsyncFrame
    /\ UNCHANGED <<_run, pc, exc, cycles, sampling_rate, focaa_knn, focca_knn,
                   boards_initialized, correlated>>

\* reinitialize_boards up to its first await (lines 134-160): the sessions are
\* prepared, the sampling rate is read from the board and self.focaa_knn is built
\* from it.
ReinitializeBoards ==
    /\ reinit = "scheduled"
    /\ sampling_rate' = board_shim1
    /\ focaa_knn' = FoCAA_KNN(board_shim1)
    /\ reinit' = "waiting"
    /\ AsyncFrame
    /\ UNCHANGED <<_run, pc, exc, cycles, board_shim1, focca_knn, boards_initialized,
                   reconfigs, correlated>>

\* The buffer wait of lines 163-167 is over.
ReinitializeDone ==
    /\ reinit = "waiting"
    /\ boards_initialized' = TRUE
    /\ reinit' = "idle"
    /\ AsyncFrame
    /\ UNCHANGED <<_run, pc, exc, cycles, board_shim1, sampling_rate, focaa_knn,
                   focca_knn, reconfigs, correlated>>

\* await self.initialize() (lines 199-213): self.board_shim.prepare_session() raises
\* AttributeError when the attribute does not exist.
AsyncInitialize ==
    /\ pc = "async_initialize"
    /\ IF board_shim = "unset"
       THEN Raise("AttributeError")
       ELSE pc' = "async_create_analysis" /\ exc' = exc
    /\ AsyncFrame
    /\ UNCHANGED <<_run, cycles, board_shim1, sampling_rate, focaa_knn, focca_knn,
                   boards_initialized, reinit, reconfigs, correlated>>

\* Lines 237-243: the local focca_knn is built from self.sampling_rate as it is
\* now; with None, length / self.sampling_rate raises TypeError.
AsyncCreateAnalysis ==
    /\ pc = "async_create_analysis"
    /\ IF sampling_rate = 0
       THEN Raise("TypeError") /\ focca_knn' = focca_knn
       ELSE /\ focca_knn' = FoCAA_KNN(sampling_rate)
            /\ pc' = "async_wait_for_boards"
            /\ exc' = exc
    /\ AsyncFrame
    /\ UNCHANGED <<_run, cycles, board_shim1, sampling_rate, focaa_knn,
                   boards_initialized, reinit, reconfigs, correlated>>

\* Lines 246-247 and 272-273: the waits for samples and for the two boards.
AsyncWaitForBoards ==
    /\ pc = "async_wait_for_boards"
    /\ board_shim1 # 0
    /\ pc' = "async_loop_test"
    /\ AsyncFrame
    /\ UNCHANGED <<_run, exc, cycles, board_shim1, sampling_rate, focaa_knn, focca_knn,
                   boards_initialized, reinit, reconfigs, correlated>>

\* while self._run (line 276)
AsyncLoopTest ==
    /\ pc = "async_loop_test"
    /\ pc' = IF _run THEN "async_cycle" ELSE "async_uninitialize"
    /\ AsyncFrame
    /\ UNCHANGED <<_run, exc, cycles, board_shim1, sampling_rate, focaa_knn, focca_knn,
                   boards_initialized, reinit, reconfigs, correlated>>

\* The instance the loop body classifies with (lines 304, 331): the local.
Classifier == focca_knn

\* One pass of the loop body, lines 278-399, up to the sleep that ends it.
AsyncCycle ==
    /\ pc = "async_cycle"
    /\ cycles < MaxCycles
    /\ correlated' = Classifier
    /\ cycles' = cycles + 1
    /\ pc' = "async_loop_test"
    /\ AsyncFrame
    /\ UNCHANGED <<_run, exc, board_shim1, sampling_rate, focaa_knn, focca_knn,
                   boards_initialized, reinit, reconfigs>>

\* await self.uninitialize() (lines 434-441)
AsyncUninitialize ==
    /\ pc = "async_uninitialize"
    /\ pc' = "returned"
    /\ AsyncFrame
    /\ UNCHANGED <<_run, exc, cycles, board_shim1, sampling_rate, focaa_knn, focca_knn,
                   boards_initialized, reinit, reconfigs, correlated>>

\* stop() (lines 416-423)
AsyncStop ==
    /\ ~RunEnded
    /\ _run
    /\ _run' = FALSE
    /\ AsyncFrame
    /\ UNCHANGED <<pc, exc, cycles, board_shim1, sampling_rate, focaa_knn, focca_knn,
                   boards_initialized, reinit, reconfigs, correlated>>

AsyncNext ==
    \/ OnSettingsChanged
    \/ ReinitializeBoards
    \/ ReinitializeDone
    \/ AsyncInitialize
    \/ AsyncCreateAnalysis
    \/ AsyncWaitForBoards
    \/ AsyncLoopTest
    \/ AsyncCycle
    \/ AsyncUninitialize
    \/ AsyncStop

AsyncSpec == AsyncInit /\ [][AsyncNext]_vars

(***************************************************************************)
(* Claims about SSVEPAnalyzer.run()                                        *)
(***************************************************************************)
\* Positions of run() inside a classification cycle.
CyclePcs ==
    {"get_current_board_data", "select_channels", "process_data", "record_eeg_data",
     "sk_findCorr"}

\* A window with fewer samples than the analysis window, or none.
ShortWindow(d) == d.samples = 0 \/ d.samples < cca_buffer_size

\* A window the source returned that is short or lacks a row the analyzer reads.
Malformed(d) ==
    /\ d.layout # "none"
    /\ \/ ShortWindow(d)
       \/ d.layout = "board_rows_by_samples" /\ RowMissing(d)

\* A full window that has every configured channel.
WellFormed(d) ==
    /\ d.layout \in {"channels_by_samples", "samples_by_channels"}
    /\ d.samples = cca_buffer_size
    /\ d.samples > 0
    /\ d.chans = Len(channels)

\* An empty frequency list or a window length <= 0 (the sub-band list is a literal
\* of run(), never empty).
BadConfig == Len(frequencies) = 0 \/ cca_buffer_size <= 0

\* C1: when stop() ran while a cycle on a well-formed window was in progress, run()
\* ends by returning, with that cycle's result recorded and emitted, and with the
\* stream stopped and the session released.
C1_StopLetsCycleFinish ==
    (stopPc \in CyclePcs /\ RunEnded /\ WellFormed(data) /\ ~BadConfig) =>
        /\ pc = "returned"
        /\ cca_rows = cycles
        /\ emitted = cycles
        /\ session = "released"

\* C2 as claimed: once the run flag is false there is no further buffer poll and no
\* further cycle.
C2_FlagAtEverySuspensionPoint ==
    [][~_run => (polls' = polls /\ cycles' = cycles)]_vars

\* C2 as amended: once the run flag is false no further cycle begins, and the
\* buffer wait is left only for the loop test and only with a full window buffered,
\* whatever the flag.
C2_FlagAtLoopTestOnly ==
    [][/\ ~_run => cycles' = cycles
       /\ (pc = "wait_for_buffer" /\ pc' # pc) =>
              (count >= cca_buffer_size /\ pc' = "loop_test")]_vars

\* stop() ran before the first poll, the wait polled on (a poll that slept and the
\* poll that found the buffer full), no cycle began and run() returned.
C2_Witness ==
    /\ ~_run
    /\ stopPc = "prepare_session"
    /\ polls >= 2
    /\ cycles = 0
    /\ pc = "returned"

\* C3: a cycle on a well-formed window does not raise, and outside a cycle every
\* cycle begun so far has recorded and emitted its result.
C3_EveryCycleEmits ==
    /\ ~(pc = "raised" /\ WellFormed(data) /\ ~BadConfig)
    /\ (pc \notin CyclePcs /\ pc # "raised") => (cca_rows = cycles /\ emitted = cycles)

C5_FullWindows ==
    /\ pulls > 0 => count >= cca_buffer_size
    /\ pc = "process_data" =>
           (data.samples = cca_buffer_size /\ data.chans = Len(channels))

\* A window of more than one sample reaches process_data after the wait slept.
C5_Witness ==
    /\ pc = "process_data"
    /\ cca_buffer_size = MaxWindow
    /\ data.samples = MaxWindow
    /\ polls >= 2

\* C6: with an empty frequency list or a window length <= 0, run() ends with a
\* configuration error while the session is still closed and no cycle has begun.
C6_BadConfigRejected ==
    BadConfig =>
        /\ session = "closed"
        /\ cycles = 0
        /\ pc \in {"prepare_session", "raised"}
        /\ pc = "raised" => exc = "ConfigurationError"

\* C7: when run() has ended, by an exception of a cycle too, no session is left open.
C7_SessionReleasedOnFailure ==
    (RunEnded /\ ~BadConfig) => session \in {"closed", "released"}

PairVotes(in, N) ==
    [p \in 1..(Len(in.a) * Len(in.b)) |->
        np_argmax(WeightedScore(in.rho, in.nbands, N,
                                in.a[((p - 1) \div Len(in.b)) + 1],
                                in.b[((p - 1) % Len(in.b)) + 1]))]

\* C9: the label returned is the most frequent of one vote per (a, b) pair, each the
\* argmax of the score over all sub-bands, the lowest index winning a tie.
C9_LabelIsMajorityOfPairVotes ==
    pc = "fbcca_returned" =>
        fb_out.label = np_bincount_argmax(PairVotes(fb_in, reference_signals))

\* C10: with one a and one b the label returned is the argmax of the score returned.
C10_SingleGridLabelIsArgmax ==
    (pc = "fbcca_returned" /\ Len(fb_in.a) = 1 /\ Len(fb_in.b) = 1) =>
        fb_out.label = np_argmax(fb_out.c)

\* C11: the score returned is, for every frequency j, the sum over all sub-bands k
\* of phi(k) * coeff[k, j]^2, with phi(k) = k^(-a) + b of the last a and the last b
\* of the grid and coeff[k, j] the correlation of sub-band k against reference j.
C11_ScoreIsLastPairWeightedSum ==
    pc = "fbcca_returned" =>
        LET S == fb_in.nbands
            a == fb_in.a[Len(fb_in.a)]
            b == fb_in.b[Len(fb_in.b)]
            den == Pow(Fact(S), a)
        IN  fb_out.c =
                [j \in 1..Len(frequencies) |->
                    SumSeq([k \in 1..S |->
                               ((den \div Pow(k, a)) + b * den)
                                   * fb_in.rho[k][j] * fb_in.rho[k][j]], S)]

\* A call with two sub-bands and a 2x2 grid whose last pair gives another score than
\* its first pair.
C11_Witness ==
    /\ pc = "fbcca_returned"
    /\ fb_in.nbands = 2
    /\ Len(fb_in.a) = 2
    /\ Len(fb_in.b) = 2
    /\ fb_out.c[1] # fb_out.c[2]
    /\ fb_out.c # WeightedScore(fb_in.rho, 2, Len(frequencies), fb_in.a[1], fb_in.b[1])

LookupsInRange == ~(pc = "raised" /\ exc = "IndexError")

\* The label of a call that has returned is an index of the frequency list.
LabelInRange ==
    pc \in {"fbcca_returned", "fbcca_repeated", "prediction_sent", "raised"} =>
        fb_out.label \in 0..(Len(frequencies) - 1)

C14_WidthsEqualFrequencyCount ==
    (pc = "fn_returned" /\ fn_ret.fn \in {"sk_findCorr", "fbcca_analysis"}) =>
        LET N == Len(fn_call.knn.frequencies)
        IN  /\ fn_ret.refs[1] = N
            /\ fn_ret.raised = "none" => fn_ret.shape = <<N>>
            /\ fn_ret.fn = "fbcca_analysis" => fn_ret.coeff[2] = N

\* fbcca_analysis returned a score for two frequencies and one sub-band.
C14_Witness ==
    /\ pc = "fn_returned"
    /\ fn_ret.fn = "fbcca_analysis"
    /\ fn_ret.raised = "none"
    /\ Len(fn_call.knn.frequencies) = 2
    /\ fn_call.nbands = 1
    /\ fn_ret.shape = <<2>>

(***************************************************************************)
(* Claims about recording.py                                               *)
(***************************************************************************)
Fields(row) == row.lead + Len(row.tail)

\* The first row of an opened file is its only header row.
HeaderOnceFirst(file, rows) ==
    /\ file = "unopened" => rows = <<>>
    /\ file # "unopened" =>
           /\ Len(rows) >= 1
           /\ rows[1].kind = "header"
           /\ \A i \in 2..Len(rows) : rows[i].kind = "data"

\* The layout [N per-frequency fields, three more fields].
ResultLayout(row) == row.lead = Len(frequencies) /\ Len(row.tail) = 3

\* C15 as claimed: each of the two files has the header [frequency labels...,
\* Stimuli, Freq, Time], written once and first, and every data row of it has the
\* layout [N coefficients, flag, frequency, timestamp].
C15_EveryStreamResultLayout ==
    \A f \in {"eeg", "cca"} :
        /\ HeaderOnceFirst(IF f = "eeg" THEN eeg_csv_file ELSE sk_cca_csv, csv_rows[f])
        /\ \A i \in 1..Len(csv_rows[f]) :
               /\ ResultLayout(csv_rows[f][i])
               /\ i = 1 => csv_rows[f][i].tail = <<"Stimuli", "Freq", "Time">>

\* C15 as amended: each file has one header row, its first row; the header of the
\* result file is [frequency labels..., Stimuli, Freq, Time] and that of the EEG
\* file [channel names..., Timestamp]; every data row of the result file has the
\* layout [N coefficients, flag, frequency, timestamp], as many fields as its header.
C15_HeaderOnceResultRowsMatch ==
    /\ HeaderOnceFirst(eeg_csv_file, csv_rows.eeg)
    /\ HeaderOnceFirst(sk_cca_csv, csv_rows.cca)
    /\ eeg_csv_file # "unopened" =>
           csv_rows.eeg[1] = [kind |-> "header", lead |-> Len(channels),
                              tail |-> <<"Timestamp">>]
    /\ \A i \in 1..Len(csv_rows.cca) :
           /\ ResultLayout(csv_rows.cca[i])
           /\ Fields(csv_rows.cca[i]) = Fields(csv_rows.cca[1])
           /\ csv_rows.cca[i].tail =
                  IF i = 1 THEN <<"Stimuli", "Freq", "Time">>
                  ELSE <<"stimuli", "frequency", "time">>

\* The result file was closed with its header and two result rows for two
\* frequencies.
C15_Witness ==
    /\ pc = "rec_closed"
    /\ Len(frequencies) = 2
    /\ Len(csv_rows.cca) = 3
    /\ csv_rows.cca[3].kind = "data"
    /\ Fields(csv_rows.cca[3]) = 5

\* C16: cca_analysis, when it returns, returns exactly min(p, q) coefficients, in
\* non-increasing order and none of them negative: an eigenvalue below zero is
\* set to zero before the square root.
C16_MinCoefficientsSortedNonNegative ==
    (pc = "fn_returned" /\ fn_ret.fn = "cca_analysis" /\ fn_ret.raised = "none")
        => /\ Len(fn_ret.coeffs) = Min(fn_call.cca.p, fn_call.cca.q)
           /\ \A i \in 1..Len(fn_ret.coeffs) : fn_ret.coeffs[i] >= 0
           /\ \A i \in 1..Len(fn_ret.coeffs), j \in 1..Len(fn_ret.coeffs) :
                  i < j => fn_ret.coeffs[i] >= fn_ret.coeffs[j]

C16_Witness ==
    /\ pc = "fn_returned"
    /\ fn_ret.fn = "cca_analysis"
    /\ fn_ret.raised = "none"
    /\ fn_call.cca.p = MaxDim
    /\ fn_call.cca.q = MaxDim
    /\ fn_call.cca.eig[1][1] < 0
    /\ fn_call.cca.eig[2][1] > 0
    /\ fn_ret.coeffs[1] > fn_ret.coeffs[MaxDim]

\* C17: when det(cx) = 0 or det(cy) = 0, cca_analysis regularizes before it
\* inverts and returns a vector of finite, non-negative coefficients: it does not
\* raise an inversion fault.
C17_SingularBlockReturnsCoefficients ==
    (pc = "fn_returned" /\ fn_ret.fn = "cca_analysis" /\ fn_ret.regularized)
        => /\ fn_ret.raised = "none"
           /\ Len(fn_ret.coeffs) = Min(fn_call.cca.p, fn_call.cca.q)
           /\ \A i \in 1..Len(fn_ret.coeffs) : fn_ret.coeffs[i] >= 0

\* The blocks of a call that are still singular when they are inverted.
StillSingular(cca) ==
    /\ ~(DetNonZero(cca.cx) /\ DetNonZero(cca.cy))
    /\ \/ cca.cx.kind = "dependent" /\ Absorbed(cca.cx.exp)
       \/ cca.cy.kind = "dependent" /\ Absorbed(cca.cy.exp)

\* C18: when the inversion fails on the regularized blocks, cca_analysis raises
\* the fault and returns no coefficients, zeros included, and fbcca_analysis
\* passes the fault on and gives no label.
C18_InversionFaultPropagates ==
    (pc = "fn_returned" /\ fn_ret.fn \in {"cca_analysis", "fbcca_cca"}
            /\ StillSingular(fn_call.cca))
        => /\ fn_ret.raised = "LinAlgError"
           /\ fn_ret.fn = "cca_analysis" => fn_ret.coeffs = <<>>
           /\ fn_ret.fn = "fbcca_cca" => (fn_ret.c = <<>> /\ fn_ret.label = -1)

C18_Witness ==
    /\ pc = "fn_returned"
    /\ fn_ret.fn = "fbcca_cca"
    /\ StillSingular(fn_call.cca)
    /\ fn_call.cca.cy.kind = "full"
    /\ fn_ret.raised = "LinAlgError"

\* C19: get_reference_signals on a sampling rate of zero or less, or for a window
\* length of zero or less, fails; it never returns a matrix, not even a 4 x 0 one.
C19_BadRateOrLengthRaises ==
    (pc = "fn_returned" /\ fn_ret.fn = "get_reference_signals"
            /\ (fn_call.sampling_rate <= 0 \/ fn_call.length <= 0))
        => fn_ret.raised # "none"

\* C20: filtering with a type_filter that it does not design fails, whatever
\* filter_active and notch_filter are; it never returns data.
C20_UnsupportedFilterRaises ==
    (pc = "fn_returned" /\ fn_ret.fn = "filtering"
            /\ fn_call.type_filter \notin DesignedFilters)
        => fn_ret.raised # "none"

(***************************************************************************)
(* Claims about DataProcessor                                              *)
(***************************************************************************)
\* C21: process_data leaves the matrix passed by the caller as it was, and what
\* it returns is another matrix.
C21_InputNotMutated ==
    (pc = "fn_returned" /\ fn_ret.fn = "process_data")
        => /\ fn_ret.data = fn_call.data
           /\ fn_ret.base # "data"

\* The sum over the output channels of the weight of input channel j, for one row
\* of the output.
RECURSIVE ChannelSum(_, _, _)
ChannelSum(row, j, c) ==
    IF c = 0 THEN 0 ELSE row[c].num[j] + ChannelSum(row, j, c - 1)

ZeroChannelSum(result) ==
    \A t \in 1..Len(result) :
        \A j \in 1..Len(result[t]) : ChannelSum(result[t], j, Len(result[t])) = 0

\* C22: what car returns when no reference channel is given, and so what
\* process_data returns, sums to zero over the channels at every sample index.
C22_CarOutputSumsToZero ==
    /\ (pc = "fn_returned" /\ fn_ret.fn = "car" /\ fn_call.reference_channel = 0)
           => ZeroChannelSum(fn_ret.result)
    /\ (pc = "fn_returned" /\ fn_ret.fn = "process_data")
           => ZeroChannelSum(fn_ret.result)

C22_Witness ==
    /\ pc = "fn_returned"
    /\ fn_ret.fn = "process_data"
    /\ fn_call.nchans = MaxChannels
    /\ fn_call.nsamples = MaxWindow
    /\ fn_ret.result[MaxWindow][1].num[1] = MaxChannels - 1
    /\ fn_ret.result[MaxWindow][1].num[MaxChannels] = -1
    /\ fn_ret.result[MaxWindow][1].den = MaxChannels

\* Step n of a call of process_data is that zero-phase Butterworth filter on
\* channel i.
ZeroPhaseStep(step, i, op, start_freq, stop_freq) ==
    /\ step.channel = i
    /\ step.op = op
    /\ step.kind = "BUTTERWORTH_ZERO_PHASE"
    /\ step.start_freq = start_freq
    /\ step.stop_freq = stop_freq

\* C27: process_data runs, channel after channel, constant detrend, zero-phase
\* band-pass 6-40 Hz of order 2, zero-phase band-stop 48-52 Hz and zero-phase
\* band-stop 58-62 Hz; the transpose comes after the last channel, and common
\* average referencing last.
C27_FilterOrderThenTransposeThenCar ==
    (pc = "fn_returned" /\ fn_ret.fn = "process_data")
        => LET log == fn_ret.log
               n == fn_call.nchans
           IN  /\ Len(log) = 4 * n + 2
               /\ \A i \in 1..n :
                      /\ log[4 * i - 3].channel = i
                      /\ log[4 * i - 3].op = "detrend"
                      /\ log[4 * i - 3].kind = "CONSTANT"
                      /\ ZeroPhaseStep(log[4 * i - 2], i, "perform_bandpass", 6, 40)
                      /\ log[4 * i - 2].order = 2
                      /\ ZeroPhaseStep(log[4 * i - 1], i, "perform_bandstop", 48, 52)
                      /\ ZeroPhaseStep(log[4 * i], i, "perform_bandstop", 58, 62)
               /\ log[4 * n + 1].op = "transpose"
               /\ log[4 * n + 2].op = "car"
               /\ \A t \in 1..fn_call.nsamples, c \in 1..n :
                      Len(fn_ret.result[t][c].of[c].ops) = 4

C27_Witness ==
    /\ pc = "fn_returned"
    /\ fn_ret.fn = "process_data"
    /\ fn_call.nchans = MaxChannels
    /\ fn_call.nsamples = MaxWindow
    /\ Len(fn_ret.log) = 4 * MaxChannels + 2
    /\ fn_ret.log[4 * MaxChannels].channel = MaxChannels

(***************************************************************************)
(* More claims about SSVEPAnalyzer.run()                                   *)
(***************************************************************************)
\* C23: pulling a window leaves the samples buffered by the source as they are,
\* the window is the one pulled in the cycle that works on it, and selecting the
\* channels and preprocessing keep it that window.
C23_CycleReadsItsOwnSnapshot ==
    [][/\ pulls' # pulls => (count' = count /\ data'.pull = pulls' /\ data'.pull = cycles)
       /\ (pulls' = pulls /\ data' # data) =>
              (pc \in CyclePcs /\ data'.pull = data.pull /\ data.pull = cycles)
       /\ (pc' \in {"select_channels", "process_data", "record_eeg_data"}) =>
              data'.pull = cycles']_vars

\* A window of the full length was pulled and preprocessed while more samples than
\* that stay buffered.
C23_Witness ==
    /\ pc = "record_eeg_data"
    /\ data.pull = 1
    /\ cycles = 1
    /\ data.samples = MaxWindow
    /\ data.layout = "samples_by_channels"
    /\ count = MaxCount

\* n times the call c.
Repeat(c, n) == [i \in 1..n |-> c]

\* The calls initialize() makes on the board, for every channel.
InitializeCalls == <<"prepare_session", "start_stream">> \o Repeat("chon", Len(channels))

\* All the calls of a run() that returns, but for the polls and the pulls.
AllBoardCalls ==
    InitializeCalls \o Repeat("choff", Len(channels)) \o <<"stop_stream", "release_session">>

IsPrefix(s, t) == Len(s) <= Len(t) /\ s = SubSeq(t, 1, Len(s))

\* C29: the calls on the signal source occur in the order prepare_session,
\* start_stream, channel-enable commands, buffer polls and window pulls,
\* channel-disable commands, stop_stream, release_session; no window is pulled
\* (and no count polled) before start_stream or after stop_stream; each of the
\* four session calls happens at most once; both recorder files are closed
\* before the session is released.
C29_BoardCallOrder ==
    [][/\ IsPrefix(boardCalls', AllBoardCalls)
       /\ (polls' # polls \/ pulls' # pulls) =>
              (boardCalls = InitializeCalls /\ session = "streaming")
       /\ session' = "released" =>
              (eeg_csv_file' = "closed" /\ sk_cca_csv' = "closed")]_vars

\* A run() over two channels that polled the buffer and has returned.
C29_Witness ==
    /\ pc = "returned"
    /\ Len(channels) = 2
    /\ polls >= 2
    /\ boardCalls = AllBoardCalls
    /\ session = "released"

\* The state Stopped: the stream is stopped, the session released, run() returned.
Stopped == pc = "returned" /\ session = "released" /\ boardCalls # <<>>

\* C26: whichever state run() is in when the stop signal arrives (Initializing,
\* WaitingForBuffer or Classifying), with a source that eventually buffers a
\* full window, run() eventually reaches Stopped.
C26_StopLeadsToStopped == (stopPc # "none") ~> Stopped

(***************************************************************************)
(* Claims about the orientation of filtering                               *)
(***************************************************************************)
FilteringReturned ==
    pc = "fn_returned" /\ fn_ret.fn = "filtering" /\ fn_ret.raised = "none"

\* C24: a two-dimensional input with more rows than columns is filtered
\* channels-major, as columns x rows, and returned in the shape it came in.
C24_TallInputKeepsShape ==
    (FilteringReturned /\ fn_call.shape[1] > fn_call.shape[2])
        => /\ fn_ret.filtered = <<fn_call.shape[2], fn_call.shape[1]>>
           /\ fn_ret.shape = fn_call.shape

C24_Witness ==
    /\ FilteringReturned
    /\ fn_call.shape = <<MaxWindow, 1>>
    /\ fn_ret.filters = <<"bandpass">>
    /\ fn_ret.filtered = <<1, MaxWindow>>

\* C30: an r x c input with r # c comes back as max(r, c) x min(r, c), so one with
\* r < c comes back transposed; a square one keeps its shape and is filtered
\* along its last axis.
C30_OutputIsSamplesMajor ==
    FilteringReturned
        => LET r == fn_call.shape[1]
               c == fn_call.shape[2]
           IN  /\ r # c => fn_ret.shape = <<Max(r, c), Min(r, c)>>
               /\ r < c => (fn_ret.shape = <<c, r>> /\ fn_ret.filtered = <<r, c>>)
               /\ r = c => (fn_ret.shape = <<r, c>> /\ fn_ret.filtered = <<r, c>>)

C30_Witness ==
    /\ FilteringReturned
    /\ fn_call.shape = <<1, MaxChannels>>
    /\ fn_ret.shape = <<MaxChannels, 1>>
    /\ fn_ret.filters = <<"iirnotch", "bandpass">>

====
